---- MODULE Spec2Model ----
(***************************************************************************)
(* Roving tabindex of the data grid's cells (useRovingTabIndex).            *)
(*                                                                         *)
(* Every cell owns one instance of the hook: a boolean isChildFocused kept  *)
(* by useState, re-evaluated on every render with the isSelected prop the   *)
(* grid passes.  The render output sets the tabindex attribute of the cell  *)
(* container and of the descendants the renderer gives props.tabIndex to,   *)
(* and attaches onFocus to the container.  The cells modelled are the cells  *)
(* of one column, one per row, so they share the column's renderCell.       *)
(***************************************************************************)
EXTENDS Integers, Sequences, FiniteSets, TLC

\* ---- bounds ----
NumCells == 2
MaxChildren == 2
MaxExports == 3

Cells == 1..NumCells

\* What a cell renderer puts inside the cell, in document order:
\*   "aware" - an element rendered with tabIndex={props.tabIndex}
\*   "plain" - an element without a tabindex attribute (a span)
Kinds == {"aware", "plain"}

Layouts == UNION {[1..n -> Kinds] : n \in 0..MaxChildren}

\* Elements that can hold the document focus: <<c, 0>> is the container of
\* cell c, <<c, i>> its i-th descendant; cell 0 is everything outside the grid.
Body == <<0, 0>>
OutsideButton == <<0, 1>>
Container(c) == <<c, 0>>
Descendant(c, i) == <<c, i>>

VARIABLES
  children,        \* what the column's renderCell draws inside each of its cells
  selectedCell,    \* the grid's selected cell, 0 when none: the source of isSelected
  isChildFocused,  \* isChildFocused[c]: the hook's useState value of cell c
  out,             \* out[c]: what the last render of cell c returned, with its prop
  pending,         \* pending[c]: a state update of cell c awaits its re-render
  didReset,        \* didReset[c]: the last render of cell c took the reset branch
  focus,           \* the element that has the document focus
  lastOp,          \* the operation that led to this state
  isExporting,     \* CommonFeatures: the useState value isExporting
  enableVirtualization,  \* CommonFeatures: the prop the last render gave the grid
  exports          \* CommonFeatures: the export calls started so far, in order

gridVars == <<children, selectedCell, isChildFocused, out, pending, didReset, focus, lastOp>>
exportVars == <<isExporting, enableVirtualization, exports>>
vars == <<gridVars, exportVars>>

\* ---- the hook body: one pass of useRovingTabIndex(isSelected) ----
\* childFocused is the value useState returned in this pass; next is the value
\* the state holds when the pass ends.
UseRovingTabIndexNoReset(isSelected, childFocused) ==
  [next          |-> childFocused,
   tabIndex      |-> IF isSelected /\ ~childFocused THEN 0 ELSE -1,
   childTabIndex |-> IF isSelected THEN 0 ELSE -1,
   onFocus       |-> isSelected]

UseRovingTabIndexHandlerWhenFocusable(isSelected, childFocused) ==
  [next          |-> IF childFocused /\ ~isSelected THEN FALSE ELSE childFocused,
   tabIndex      |-> IF isSelected /\ ~childFocused THEN 0 ELSE -1,
   childTabIndex |-> IF isSelected THEN 0 ELSE -1,
   onFocus       |-> isSelected /\ ~childFocused]

UseRovingTabIndexIgnoresSelected(isSelected, childFocused) ==
  [next          |-> IF childFocused /\ ~isSelected THEN FALSE ELSE childFocused,
   tabIndex      |-> IF ~childFocused THEN 0 ELSE -1,
   childTabIndex |-> IF isSelected THEN 0 ELSE -1,
   onFocus       |-> isSelected]

UseRovingTabIndexChildAlwaysZero(isSelected, childFocused) ==
  [next          |-> IF childFocused /\ ~isSelected THEN FALSE ELSE childFocused,
   tabIndex      |-> IF isSelected /\ ~childFocused THEN 0 ELSE -1,
   childTabIndex |-> 0,
   onFocus       |-> isSelected]

UseRovingTabIndexChildFollowsContainer(isSelected, childFocused) ==
  [next          |-> IF childFocused /\ ~isSelected THEN FALSE ELSE childFocused,
   tabIndex      |-> IF isSelected /\ ~childFocused THEN 0 ELSE -1,
   childTabIndex |-> IF isSelected /\ ~childFocused THEN 0 ELSE -1,
   onFocus       |-> isSelected]

UseRovingTabIndexResetWhileSelected(isSelected, childFocused) ==
  [next          |-> IF childFocused THEN FALSE ELSE childFocused,
   tabIndex      |-> IF isSelected /\ ~childFocused THEN 0 ELSE -1,
   childTabIndex |-> IF isSelected THEN 0 ELSE -1,
   onFocus       |-> isSelected]

UseRovingTabIndex(isSelected, childFocused) ==
  [next          |-> IF childFocused /\ ~isSelected THEN FALSE ELSE childFocused,
   tabIndex      |-> IF isSelected /\ ~childFocused THEN 0 ELSE -1,
   childTabIndex |-> IF isSelected THEN 0 ELSE -1,
   onFocus       |-> isSelected]

\* A render of the component: a state update made while rendering makes React
\* throw the pass away and run the body again with the new state.
Render(isSelected, childFocused) ==
  LET pass == UseRovingTabIndex(isSelected, childFocused)
  IN  IF pass.next # childFocused
        THEN UseRovingTabIndex(isSelected, pass.next)
        ELSE pass

\* The render output as committed, together with the prop it was rendered with.
Committed(isSelected, r) ==
  [isSelected    |-> isSelected,
   tabIndex      |-> r.tabIndex,
   childTabIndex |-> r.childTabIndex,
   onFocus       |-> r.onFocus]

\* ---- the DOM of a cell ----
\* Descendant i of cell c carries the attribute tabindex="0": it is rendered
\* with props.tabIndex and the last render passed 0.
HasTabIndexZero(c, i) ==
  children[i] = "aware" /\ out[c].childTabIndex = 0

\* The descendants of cell c that match the selector [tabindex="0"].
Matches(c) == {i \in 1..Len(children) : HasTabIndexZero(c, i)}

Min(S) == CHOOSE x \in S : \A y \in S : x <= y
Max(S) == CHOOSE x \in S : \A y \in S : x >= y

\* currentTarget.querySelector('[tabindex="0"]'): the first match in document
\* order, 0 standing for null.
QuerySelectorLast(c) == IF Matches(c) = {} THEN 0 ELSE Max(Matches(c))

QuerySelector(c) == IF Matches(c) = {} THEN 0 ELSE Min(Matches(c))

\* The elements of cell c a click or Tab can put the focus on: the container
\* (it always carries a tabindex attribute) and the descendants that carry one.
Focusable(c) ==
  {Container(c)} \cup {Descendant(c, i) : i \in {j \in 1..Len(children) : children[j] = "aware"}}

InCell(e, c) == e[1] = c

\* ---- the CommonFeatures screen ----
\* enableVirtualization={!isExporting}: the prop a render of the screen passes.
RenderedVirtualization(exporting) == ~exporting

\* ---- initial state: the grid is mounted, no cell is selected ----
Init ==
  /\ children \in Layouts
  /\ selectedCell = 0
  /\ isChildFocused = [c \in Cells |-> FALSE]
  /\ out = [c \in Cells |-> Committed(FALSE, Render(FALSE, FALSE))]
  /\ pending = [c \in Cells |-> FALSE]
  /\ didReset = [c \in Cells |-> FALSE]
  /\ focus = Body
  /\ lastOp = [op |-> "init"]
  /\ isExporting = FALSE
  /\ enableVirtualization = RenderedVirtualization(FALSE)
  /\ exports = <<>>

\* ---- the selection input ----
\* The grid selects cell c, or no cell when c = 0.
SelectCell(c) ==
  /\ c # selectedCell
  /\ selectedCell' = c
  /\ lastOp' = [op |-> "select", cell |-> c]
  /\ UNCHANGED <<children, isChildFocused, out, pending, didReset, focus, exportVars>>

\* ---- a render of cell c ----
EvaluateStealsFocus(c) ==
  LET isSelected == (selectedCell = c)
      r == Render(isSelected, isChildFocused[c])
  IN  /\ isChildFocused' = [isChildFocused EXCEPT ![c] = r.next]
      /\ out' = [out EXCEPT ![c] = Committed(isSelected, r)]
      /\ pending' = [pending EXCEPT ![c] = FALSE]
      /\ didReset' = [didReset EXCEPT ![c] = (r.next # isChildFocused[c])]
      /\ focus' = IF isSelected THEN Container(c) ELSE focus
      /\ lastOp' = [op |-> "eval", cell |-> c, mount |-> FALSE,
                    entry |-> isChildFocused[c], afterReset |-> didReset[c]]
      /\ UNCHANGED <<children, selectedCell, exportVars>>

EvaluateSharedState(c) ==
  LET isSelected == (selectedCell = c)
      r == Render(isSelected, isChildFocused[c])
  IN  /\ isChildFocused' = [d \in Cells |-> r.next]
      /\ out' = [out EXCEPT ![c] = Committed(isSelected, r)]
      /\ pending' = [pending EXCEPT ![c] = FALSE]
      /\ didReset' = [didReset EXCEPT ![c] = (r.next # isChildFocused[c])]
      /\ lastOp' = [op |-> "eval", cell |-> c, mount |-> FALSE,
                    entry |-> isChildFocused[c], afterReset |-> didReset[c]]
      /\ UNCHANGED <<children, selectedCell, focus, exportVars>>

Evaluate(c) ==
  LET isSelected == (selectedCell = c)
      r == Render(isSelected, isChildFocused[c])
  IN  /\ isChildFocused' = [isChildFocused EXCEPT ![c] = r.next]
      /\ out' = [out EXCEPT ![c] = Committed(isSelected, r)]
      /\ pending' = [pending EXCEPT ![c] = FALSE]
      /\ didReset' = [didReset EXCEPT ![c] = (r.next # isChildFocused[c])]
      /\ lastOp' = [op |-> "eval", cell |-> c, mount |-> FALSE,
                    entry |-> isChildFocused[c], afterReset |-> didReset[c]]
      /\ UNCHANGED <<children, selectedCell, focus, exportVars>>

\* The row of cell c is replaced: the cell is unmounted and a new one mounted,
\* its state starting from useState(false).  An element that is removed while
\* it has the focus leaves the focus on the document body.
Recreate(c) ==
  LET isSelected == (selectedCell = c)
      r == Render(isSelected, FALSE)
  IN  /\ isChildFocused' = [isChildFocused EXCEPT ![c] = r.next]
      /\ out' = [out EXCEPT ![c] = Committed(isSelected, r)]
      /\ pending' = [pending EXCEPT ![c] = FALSE]
      /\ didReset' = [didReset EXCEPT ![c] = FALSE]
      /\ focus' = IF InCell(focus, c) THEN Body ELSE focus
      /\ lastOp' = [op |-> "eval", cell |-> c, mount |-> TRUE,
                    entry |-> FALSE, afterReset |-> FALSE]
      /\ UNCHANGED <<children, selectedCell, exportVars>>

\* ---- focus events ----
\* The element target of cell c receives the focus (click, Tab or a focus()
\* call of the grid); the event bubbles to the container, whose onFocus runs
\* when the last render attached it.
FocusInNoNullCheck(c, target) ==
  /\ target \in Focusable(c)
  /\ focus # target
  /\ LET elementToFocus == QuerySelector(c)
         found == out[c].onFocus
     IN  /\ focus' = IF found /\ elementToFocus # 0
                       THEN Descendant(c, elementToFocus) ELSE target
         /\ isChildFocused' = IF found THEN [isChildFocused EXCEPT ![c] = TRUE]
                                       ELSE isChildFocused
         /\ pending' = IF found /\ ~isChildFocused[c]
                         THEN [pending EXCEPT ![c] = TRUE]
                         ELSE pending
         /\ lastOp' = [op |-> "focus", cell |-> c, target |-> target,
                       from |-> focus, entry |-> isChildFocused[c]]
  /\ UNCHANGED <<children, selectedCell, out, didReset, exportVars>>

FocusIn(c, target) ==
  /\ target \in Focusable(c)
  /\ focus # target
  /\ LET elementToFocus == QuerySelector(c)
         found == out[c].onFocus /\ elementToFocus # 0
     IN  /\ focus' = IF found THEN Descendant(c, elementToFocus) ELSE target
         /\ isChildFocused' = IF found THEN [isChildFocused EXCEPT ![c] = TRUE]
                                       ELSE isChildFocused
         /\ pending' = IF found /\ ~isChildFocused[c]
                         THEN [pending EXCEPT ![c] = TRUE]
                         ELSE pending
         /\ lastOp' = [op |-> "focus", cell |-> c, target |-> target,
                       from |-> focus, entry |-> isChildFocused[c]]
  /\ UNCHANGED <<children, selectedCell, out, didReset, exportVars>>

\* The focus leaves the grid for the button outside of it.
FocusOutside ==
  /\ focus # OutsideButton
  /\ focus' = OutsideButton
  /\ lastOp' = [op |-> "outside"]
  /\ UNCHANGED <<children, selectedCell, isChildFocused, out, pending, didReset, exportVars>>

Next ==
  \/ \E c \in 0..NumCells : SelectCell(c)
  \/ \E c \in Cells : Evaluate(c)
  \/ \E c \in Cells : Recreate(c)
  \/ \E c \in Cells : \E target \in Focusable(c) : FocusIn(c, target)
  \/ FocusOutside

Spec == Init /\ [][Next]_vars

\* ---- the export buttons of the CommonFeatures screen ----
\* flushSync(() => setIsExporting(v)): the state is set and the screen is
\* rendered before flushSync returns.
FlushSyncSetIsExporting(v) ==
  [isExporting |-> v, enableVirtualization |-> RenderedVirtualization(v)]

\* handleExportToCsv runs to completion in one task: exportToCsv reads the grid
\* between the two flushSync calls.
HandleExportToCsv ==
  /\ Len(exports) < MaxExports
  /\ LET before == FlushSyncSetIsExporting(TRUE)
         after == FlushSyncSetIsExporting(FALSE)
     IN  /\ exports' = Append(exports,
                [kind |-> "csv", status |-> "finished",
                 virtualizedAtCall |-> before.enableVirtualization])
         /\ isExporting' = after.isExporting
         /\ enableVirtualization' = after.enableVirtualization
  /\ UNCHANGED gridVars

\* handleExportToPdf up to its await: exportToPdf has been called and its
\* promise is pending, the buttons stay usable.
HandleExportToPdf ==
  /\ Len(exports) < MaxExports
  /\ LET before == FlushSyncSetIsExporting(TRUE)
     IN  /\ exports' = Append(exports,
                [kind |-> "pdf", status |-> "awaiting",
                 virtualizedAtCall |-> before.enableVirtualization])
         /\ isExporting' = before.isExporting
         /\ enableVirtualization' = before.enableVirtualization
  /\ UNCHANGED gridVars

\* The promise of the i-th export resolves and handleExportToPdf continues
\* after its await.
ExportToPdfResolved(i) ==
  /\ i \in 1..Len(exports)
  /\ exports[i].status = "awaiting"
  /\ LET after == FlushSyncSetIsExporting(FALSE)
     IN  /\ exports' = [exports EXCEPT ![i].status = "finished"]
         /\ isExporting' = after.isExporting
         /\ enableVirtualization' = after.enableVirtualization
  /\ UNCHANGED gridVars

ExportNext ==
  \/ HandleExportToCsv
  \/ HandleExportToPdf
  \/ \E i \in 1..MaxExports : ExportToPdfResolved(i)

SpecExport == Init /\ [][ExportNext]_vars

TypeOK ==
  /\ children \in Layouts
  /\ selectedCell \in 0..NumCells
  /\ isChildFocused \in [Cells -> BOOLEAN]
  /\ pending \in [Cells -> BOOLEAN]
  /\ didReset \in [Cells -> BOOLEAN]
  /\ \A c \in Cells : out[c].tabIndex \in {0, -1} /\ out[c].childTabIndex \in {0, -1}

\* ---- properties ----
IsEval == lastOp.op = "eval"
IsFocus == lastOp.op = "focus"

\* The descendants the renderer gives props.tabIndex to.
Aware == {i \in 1..Len(children) : children[i] = "aware"}

\* The elements, among the cell containers and the descendants rendered with
\* props.tabIndex, whose tabindex attribute is 0.
TabStops ==
  {Container(c) : c \in {d \in Cells : out[d].tabIndex = 0}}
    \cup {Descendant(c, i) : c \in {d \in Cells : out[d].childTabIndex = 0}, i \in Aware}

\* The last render of cell c used the current selection and the current state.
UpToDate(c) == out[c].isSelected = (selectedCell = c) /\ ~pending[c]

\* C1: every evaluation returns tabIndex 0 exactly when selected and not
\* childFocused (-1 otherwise), childTabIndex 0 exactly when selected (-1
\* otherwise) and the onFocus handler exactly when selected, whether the flag
\* is read on entry or as stored when the evaluation ends.
C1_OutputsAreFunctionOfInputs ==
  IsEval =>
    LET c == lastOp.cell
        o == out[c]
        sel == (selectedCell = c)
    IN  /\ o.isSelected = sel
        /\ o.tabIndex \in {0, -1} /\ o.childTabIndex \in {0, -1}
        /\ \A cf \in {lastOp.entry, isChildFocused[c]} :
             (o.tabIndex = 0) <=> (sel /\ ~cf)
        /\ (o.childTabIndex = 0) <=> sel
        /\ o.onFocus <=> sel

C1_Witness ==
  /\ IsEval
  /\ ~lastOp.mount
  /\ selectedCell = lastOp.cell
  /\ lastOp.entry
  /\ out[lastOp.cell].tabIndex = -1
  /\ out[lastOp.cell].childTabIndex = 0
  /\ out[lastOp.cell].onFocus

\* C2: in a state reached by an evaluation of a cell, childFocused of that cell
\* is not true while the cell is not selected.
C2_ChildFocusedOnlyWhileSelected ==
  IsEval => ~(isChildFocused[lastOp.cell] /\ selectedCell # lastOp.cell)

C2_Witness ==
  /\ IsEval
  /\ lastOp.entry
  /\ selectedCell # lastOp.cell
  /\ didReset[lastOp.cell]
  /\ ~isChildFocused[lastOp.cell]

\* C3: an evaluation entered with childFocused true and selected false leaves
\* childFocused false and returns container tabIndex -1; and the evaluation
\* that follows such a resetting evaluation, when the cell is selected again,
\* returns container tabIndex 0.
C3_ResetOnDeselectThenForgotten ==
  IsEval =>
    LET c == lastOp.cell
    IN  /\ (lastOp.entry /\ selectedCell # c)
             => (~isChildFocused[c] /\ out[c].tabIndex = -1)
        /\ (lastOp.afterReset /\ selectedCell = c)
             => (~lastOp.entry /\ out[c].tabIndex = 0)

C3_Witness ==
  /\ IsEval
  /\ lastOp.afterReset
  /\ selectedCell = lastOp.cell
  /\ out[lastOp.cell].tabIndex = 0

\* C4: a focus event on a cell rendered as selected that has a descendant with
\* tabindex 0 leaves the focus on the first such descendant in document order
\* and childFocused true; the evaluation entered with childFocused true and
\* the cell still selected returns container tabIndex -1 and childTabIndex 0.
C4_FocusEntersFirstTabStop ==
  /\ IsFocus =>
       LET c == lastOp.cell
       IN  (out[c].isSelected /\ Matches(c) # {})
             => /\ focus = Descendant(c, Min(Matches(c)))
                /\ isChildFocused[c]
                /\ (~lastOp.entry => pending[c])
  /\ (IsEval /\ ~lastOp.mount) =>
       LET c == lastOp.cell
       IN  (lastOp.entry /\ selectedCell = c)
             => (out[c].tabIndex = -1 /\ out[c].childTabIndex = 0)

C4_Witness ==
  /\ IsFocus
  /\ out[lastOp.cell].isSelected
  /\ lastOp.target = Container(lastOp.cell)
  /\ ~lastOp.entry
  /\ Cardinality(Matches(lastOp.cell)) >= 2
  /\ focus = Descendant(lastOp.cell, Min(Matches(lastOp.cell)))
  /\ isChildFocused[lastOp.cell]

\* C5: a focus event on a cell rendered as selected that has no descendant
\* with tabindex 0 leaves the focus where the event put it, on the container,
\* and childFocused false; an evaluation of such a cell while it is selected
\* returns container tabIndex 0.
C5_NoTabStopIsNoOp ==
  /\ IsFocus =>
       LET c == lastOp.cell
       IN  (out[c].isSelected /\ Matches(c) = {})
             => /\ focus = lastOp.target
                /\ focus = Container(c)
                /\ ~isChildFocused[c]
                /\ ~pending[c]
  /\ IsEval =>
       LET c == lastOp.cell
       IN  (selectedCell = c /\ Aware = {}) => out[c].tabIndex = 0

C5_Witness ==
  /\ IsFocus
  /\ out[lastOp.cell].isSelected
  /\ out[lastOp.cell].onFocus
  /\ Matches(lastOp.cell) = {}
  /\ focus = Container(lastOp.cell)
  /\ ~isChildFocused[lastOp.cell]

\* C6: in a cell whose renderer gives descendants props.tabIndex, every focus
\* event on the cell while it is rendered as selected ends with the focus on
\* the first of them, also when childFocused was already true; moving the
\* focus out of the grid takes it away from the descendant and leaves the
\* handler attached.
C6_FocusReentryReachesChild ==
  /\ IsFocus =>
       LET c == lastOp.cell
       IN  (out[c].isSelected /\ Aware # {})
             => (focus = Descendant(c, Min(Aware)) /\ isChildFocused[c])
  /\ lastOp.op = "outside" =>
       /\ focus = OutsideButton
       /\ \A c \in Cells : out[c].isSelected => out[c].onFocus

C6_Witness ==
  /\ IsFocus
  /\ lastOp.entry
  /\ lastOp.from = OutsideButton
  /\ out[lastOp.cell].isSelected
  /\ Aware # {}
  /\ focus = Descendant(lastOp.cell, Min(Aware))

\* C7: an evaluation does not move the focus: a re-render leaves it where it
\* is, and a re-creation of the cell changes it only by dropping it to the
\* document body when the removed cell held it; so the focus enters a cell
\* only by a focus event on that cell, and a focus outside the grid stays
\* where it is across evaluations.
C7_EvaluationNeverMovesFocus ==
  [][ /\ lastOp'.op = "eval" =>
           \/ focus' = focus
           \/ lastOp'.mount /\ InCell(focus, lastOp'.cell) /\ focus' = Body
      /\ (lastOp'.op = "eval" /\ focus[1] = 0) => focus' = focus
      /\ (focus' # focus /\ focus'[1] # 0) =>
           (lastOp'.op = "focus" /\ lastOp'.cell = focus'[1])
    ]_vars

C7_Witness ==
  /\ IsEval
  /\ lastOp.mount
  /\ selectedCell = lastOp.cell
  /\ out[lastOp.cell].tabIndex = 0
  /\ focus = OutsideButton

\* C8 as stated: when one cell is selected and every cell has been evaluated
\* with the current selection and state, exactly one element among the
\* containers and the descendants rendered with props.tabIndex has tabindex 0.
C8_ExactlyOneTabStop ==
  (selectedCell # 0 /\ \A c \in Cells : UpToDate(c))
    => Cardinality(TabStops) = 1

\* C8 amended: in such a state no element of an unselected cell has tabindex 0;
\* in the selected cell every descendant rendered with props.tabIndex has
\* tabindex 0 and the container has it exactly when childFocused is false; at
\* least one tab stop exists, and exactly one exactly when the cell has no such
\* descendant, or has one and childFocused is true.
C8_TabStopsOfSelectedCell ==
  (selectedCell # 0 /\ \A c \in Cells : UpToDate(c))
    => LET s == selectedCell
       IN  /\ \A e \in TabStops : InCell(e, s)
           /\ \A i \in Aware : Descendant(s, i) \in TabStops
           /\ (Container(s) \in TabStops) <=> ~isChildFocused[s]
           /\ TabStops # {}
           /\ (Cardinality(TabStops) = 1) <=>
                \/ Aware = {}
                \/ (Cardinality(Aware) = 1 /\ isChildFocused[s])

C8_Witness ==
  /\ selectedCell # 0
  /\ \A c \in Cells : UpToDate(c)
  /\ IsEval
  /\ Aware # {}
  /\ ~isChildFocused[selectedCell]
  /\ Cardinality(TabStops) = 1 + Cardinality(Aware)

\* C9: the outputs of an evaluation with selected false are tabIndex -1,
\* childTabIndex -1 and no handler whatever childFocused was on entry, and the
\* container tabIndex of every evaluation is the one the formula gives for the
\* childFocused value stored when the evaluation ends.
C9_NoStaleStateInOutputs ==
  IsEval =>
    LET c == lastOp.cell
        o == out[c]
    IN  /\ ~o.isSelected =>
             (o.tabIndex = -1 /\ o.childTabIndex = -1 /\ ~o.onFocus)
        /\ o.tabIndex = (IF o.isSelected /\ ~isChildFocused[c] THEN 0 ELSE -1)
        /\ ~pending[c]

C9_Witness ==
  /\ IsEval
  /\ lastOp.entry
  /\ ~out[lastOp.cell].isSelected
  /\ out[lastOp.cell].tabIndex = -1
  /\ InCell(focus, lastOp.cell)
  /\ focus # Container(lastOp.cell)

\* C10: an evaluation of a cell or a focus event on a cell leaves the
\* childFocused flag, the pending update and the outputs of every other cell
\* unchanged.
C10_NoSharedStateAcrossCells ==
  [][ \A c \in Cells :
        (lastOp'.op \in {"eval", "focus"} /\ lastOp'.cell = c) =>
          \A d \in Cells \ {c} :
            /\ isChildFocused'[d] = isChildFocused[d]
            /\ out'[d] = out[d]
            /\ pending'[d] = pending[d]
    ]_vars

C10_Witness ==
  /\ IsFocus
  /\ ~lastOp.entry
  /\ isChildFocused[lastOp.cell]
  /\ \E d \in Cells \ {lastOp.cell} : isChildFocused[d] /\ ~UpToDate(d)

\* C11 as stated: childFocused of a cell goes from true to false only by an
\* evaluation of that cell with selected false, and an evaluation of a cell
\* that is selected and has childFocused true keeps it true and returns
\* container tabIndex -1 and childTabIndex 0.
C11_ClearedOnlyByDeselectedEvaluation ==
  [][ \A c \in Cells :
        /\ (isChildFocused[c] /\ ~isChildFocused'[c]) =>
             (lastOp'.op = "eval" /\ lastOp'.cell = c /\ selectedCell # c)
        /\ (isChildFocused[c] /\ selectedCell = c
              /\ lastOp'.op = "eval" /\ lastOp'.cell = c) =>
             /\ isChildFocused'[c]
             /\ out'[c].tabIndex = -1
             /\ out'[c].childTabIndex = 0
    ]_vars

\* C11 amended: childFocused of a cell goes from true to false only by an
\* evaluation of that cell with selected false or by the re-creation of the
\* cell, whose new hook instance starts from useState(false); a re-render of a
\* cell that is selected and has childFocused true keeps it true and returns
\* container tabIndex -1 and childTabIndex 0, wherever the focus is.
C11_ClearedOnlyByDeselectOrRemount ==
  [][ \A c \in Cells :
        /\ (isChildFocused[c] /\ ~isChildFocused'[c]) =>
             /\ lastOp'.op = "eval"
             /\ lastOp'.cell = c
             /\ (selectedCell # c \/ lastOp'.mount)
        /\ (isChildFocused[c] /\ selectedCell = c
              /\ lastOp'.op = "eval" /\ lastOp'.cell = c /\ ~lastOp'.mount) =>
             /\ isChildFocused'[c]
             /\ out'[c].tabIndex = -1
             /\ out'[c].childTabIndex = 0
    ]_vars

C11_Witness ==
  /\ IsEval
  /\ ~lastOp.mount
  /\ lastOp.entry
  /\ selectedCell = lastOp.cell
  /\ focus = OutsideButton
  /\ isChildFocused[lastOp.cell]
  /\ out[lastOp.cell].tabIndex = -1
  /\ out[lastOp.cell].childTabIndex = 0

\* The export calls that have started and not finished.
InProgress == {i \in 1..Len(exports) : exports[i].status = "awaiting"}

\* C12: while an export call is in progress isExporting is true and
\* enableVirtualization is false, also at the moment exportToCsv or exportToPdf
\* is called; once every started export has finished isExporting is false and
\* enableVirtualization is true.
C12_VirtualizationOffDuringExport ==
  /\ \A i \in 1..Len(exports) : ~exports[i].virtualizedAtCall
  /\ InProgress # {} => (isExporting /\ ~enableVirtualization)
  /\ InProgress = {} => (~isExporting /\ enableVirtualization)
====
